---- MODULE Spec2Model ----
(***************************************************************************)
(* State-machine model of the product-analyzer frontend.                   *)
(*                                                                         *)
(* src/frontend/src/App.tsx holds two versions of the App component: the   *)
(* endpoint-toggle App (lines 1-179) and the goal/questions App (lines     *)
(* 180-415).  The variable `app` says which of the two is mounted; it is   *)
(* chosen in Init and never changes.  One step of the model is one React   *)
(* event handler run to completion, or one continuation of the async       *)
(* handleSubmit between two awaits; the state updates a handler or a       *)
(* continuation makes are committed together (React batches them), so a    *)
(* state of the model is a rendered state of the component.                *)
(*                                                                         *)
(* Optional values (null / undefined / an absent JSON property) are        *)
(* modelled as sequences of length 0 or 1: None is <<>>, Some(v) is <<v>>. *)
(***************************************************************************)
EXTENDS Naturals, Sequences, FiniteSets, TLC

None == <<>>
Some(v) == <<v>>
IsSome(o) == o # None
Val(o) == o[1]

\* ------------------------------------------------------------ bounds
\* Largest number of question rows the model lets QuestionsInput hold.
MaxRows == 2

\* ------------------------------------------------------------ inputs
\* Files the user can pick in the file dialog.
Files ==
  { [name |-> "a.csv", type |-> "text/csv"],
    [name |-> "b.csv", type |-> "text/csv"],
    [name |-> "notes.txt", type |-> "text/plain"] }

\* Texts a user can type into a question input, as sequences of characters.
TypedTexts == { <<>>, <<" ">>, <<" ", "a", " ">> }

\* QuestionsInput.tsx:4-10, each example abbreviated to its first letters.
QUESTION_EXAMPLES == { <<"W", "h">> }

IsSpace(ch) == ch = " "

\* String.prototype.trim: drop the leading and the trailing white space.
RECURSIVE TrimStart(_)
TrimStart(s) ==
  IF s # <<>> /\ IsSpace(Head(s)) THEN TrimStart(Tail(s)) ELSE s

RECURSIVE TrimEnd(_)
TrimEnd(s) ==
  IF s # <<>> /\ IsSpace(s[Len(s)]) THEN TrimEnd(SubSeq(s, 1, Len(s) - 1)) ELSE s

trim(s) == TrimEnd(TrimStart(s))

\* Truthiness of a question text (a JavaScript string held as a sequence of
\* characters): the empty string is falsy.
TruthyStr(s) == s # <<>>

\* Array.prototype.filter(q => q.trim())
RECURSIVE FilterNonBlank(_)
FilterNonBlank(qs) ==
  IF qs = <<>> THEN <<>>
  ELSE IF TruthyStr(trim(Head(qs)))
       THEN <<Head(qs)>> \o FilterNonBlank(Tail(qs))
       ELSE FilterNonBlank(Tail(qs))

\* Array.prototype.filter((_, i) => i !== index), index counted from 1 here.
RemoveAt(qs, index) ==
  SubSeq(qs, 1, index - 1) \o SubSeq(qs, index + 1, Len(qs))

\* Array.prototype.findIndex(q => !q.trim()), counted from 1; 0 when none.
FindEmptyIndex(qs) ==
  IF \E i \in 1..Len(qs) : ~TruthyStr(trim(qs[i]))
  THEN CHOOSE i \in 1..Len(qs) :
         /\ ~TruthyStr(trim(qs[i]))
         /\ \A j \in 1..(i - 1) : TruthyStr(trim(qs[j]))
  ELSE 0

\* ------------------------------------------------------------ responses
\* response.statusText of a response that is not ok (empty over HTTP/2).
StatusTexts == { "", "Bad Gateway" }

\* The values of data.error in a parsed body.
ErrorFields == { None, Some(""), Some("Unsupported file") }

\* An answer of a parsed body (part_002:21-26).  A confidence is a number of
\* thousandths: 855 stands for 0.855.
Answer(question, confidence) ==
  [question |-> question, answer |-> "because", confidence |-> confidence]

\* The values of data.data in a parsed body: absent, or an object with some of
\* the properties recommendations, answers, analysis, metrics.  The list of
\* recommendations holds the names of its entries, objects the set of their
\* keys.
Payloads ==
  { [recommendations |-> Some(<<"r1", "r2">>), answers |-> None,
     analysis |-> Some({"m1", "m2"}), metrics |-> None],
    [recommendations |-> None,
     answers |-> Some(<< Answer("q1", Some(855)), Answer("q2", Some(0)),
                         Answer("q3", None), Answer("q4", Some(1000)) >>),
     analysis |-> Some({"m1"}), metrics |-> None],
    [recommendations |-> Some(<<"r1">>), answers |-> Some(<<>>),
     analysis |-> Some({}), metrics |-> None],
    [recommendations |-> Some(<<"r1">>), answers |-> None,
     analysis |-> None, metrics |-> Some({"m1"})] }

\* The parsed bodies response.json() can resolve to.
JsonBodies ==
  { [success |-> TRUE, error |-> None, data |-> d] : d \in {None} \cup { Some(p) : p \in Payloads } }
  \cup { [success |-> FALSE, error |-> e, data |-> None] : e \in ErrorFields }

\* A thrown value: an Error with its message, or something that is no Error.
Error(msg) == [isError |-> TRUE, message |-> msg]

\* What fetch, response.text() and response.json() reject with.
NetworkError == Error("Failed to fetch")
ParseError == Error("Unexpected token < in JSON at position 0")
\* data.data.recommendations when data.data is undefined.
PropertyOfUndefined == Error("Cannot read properties of undefined")

\* ------------------------------------------------------------ state
VARIABLES
  app,             \* "toggle" or "goal": the App version that is mounted
  useNewEndpoint,  \* App.tsx:8
  file,            \* App.tsx:9 and 197
  domFile,         \* the files of <input type="file" required>
  loading,         \* App.tsx:10 and 198
  results,         \* App.tsx:11 and 199
  error,           \* App.tsx:12 and 200
  questions,       \* App.tsx:202: the parent's list of questions
  analysisMode,    \* App.tsx:203
  qiQuestions,     \* QuestionsInput.tsx:17: the rows of the mounted QuestionsInput
  showExamples,    \* QuestionsInput.tsx:18
  calls,           \* the invocations of handleSubmit that have not returned yet
  fetches,         \* history: number of calls of fetch the last step made
  lastEvent,       \* history: the kind of the step taken last
  lastOutcome,     \* history: "none", or how the latest submit stands:
                   \* "pending", "ok" or "failed"
  recommendation,  \* RecommendationCard.tsx:22: the props of a card looked at
                   \* on its own, None while no card is
  cardView,        \* what that card has rendered of supporting_data
  exportHidden,    \* part_002:39 and 52: the mounted 'Export to PDF' button has
                   \* style.display = 'none'
  saves,           \* the save() promises of html2pdf that have not settled
  template,        \* the prompt template being interpolated, None while none is
  pos,             \* the next character of the template to read
  prompt,          \* the interpolated text written so far
  pc               \* "idle", "format", "done" or "error"

appVars ==
  << app, useNewEndpoint, file, domFile, loading, results, error, questions,
     analysisMode, qiQuestions, showExamples, calls, fetches, lastEvent,
     lastOutcome >>

cardVars == << recommendation, cardView >>

exportVars == << exportHidden, saves >>

promptVars == << template, pos, prompt, pc >>

vars == << appVars, cardVars, exportVars, promptVars >>

formVars == << useNewEndpoint, file, domFile, questions, analysisMode, qiQuestions, showExamples >>
questionVars == << questions, analysisMode, qiQuestions, showExamples >>

\* QuestionsInput is rendered only by the goal/questions App in 'questions' mode.
QuestionsInputMounted == app = "goal" /\ analysisMode = "questions"

AppInit ==
  /\ app \in { "toggle", "goal" }
  /\ useNewEndpoint = TRUE
  /\ file = None
  /\ domFile = None
  /\ loading = FALSE
  /\ results = None
  /\ error = None
  /\ questions = <<>>
  /\ analysisMode = "goal"
  /\ qiQuestions = << <<>> >>
  /\ showExamples = FALSE
  /\ calls = {}
  /\ fetches = 0
  /\ lastEvent = "mount"
  /\ lastOutcome = "none"

\* No card is looked at on its own.
CardIdle == recommendation = None /\ cardView = None

\* part_002:60-65: the button is rendered without a style; nothing is saved.
ExportIdle == exportHidden = FALSE /\ saves = {}

\* No prompt is being built.
PromptIdle == template = None /\ pos = 1 /\ prompt = <<>> /\ pc = "idle"

Init == AppInit /\ CardIdle /\ ExportIdle /\ PromptIdle

\* ------------------------------------------------------------ the form
\* Mutant of handleFileChange: a selection that is not a CSV file clears the
\* accepted file.
handleFileChange_clearsOnInvalid(selected) ==
  /\ domFile' = selected
  /\ file' = IF IsSome(selected) /\ Val(selected).type = "text/csv"
             THEN selected ELSE None
  /\ UNCHANGED << app, useNewEndpoint, loading, results, error, questions,
                  analysisMode, qiQuestions, showExamples, calls >>
  /\ fetches' = 0

\* App.tsx:14-19 and 205-210.  `selected` is event.target.files?.[0].
handleFileChange(selected) ==
  /\ domFile' = selected
  /\ file' = IF IsSome(selected) /\ Val(selected).type = "text/csv"
             THEN selected ELSE file
  /\ UNCHANGED << app, useNewEndpoint, loading, results, error, questions,
                  analysisMode, qiQuestions, showExamples, calls >>
  /\ fetches' = 0

FileChange ==
  \E selected \in {None} \cup { Some(f) : f \in Files } :
    /\ selected # domFile
    /\ handleFileChange(selected)

\* App.tsx:85-90: the 'Use Dynamic Analysis' checkbox.
setUseNewEndpoint(checked) ==
  /\ app = "toggle"
  /\ useNewEndpoint' = checked
  /\ UNCHANGED << app, file, domFile, loading, results, error, questions,
                  analysisMode, qiQuestions, showExamples, calls >>
  /\ fetches' = 0

CheckboxChange == setUseNewEndpoint(~useNewEndpoint)

\* App.tsx:305-326 with the conditional render of 330-370: leaving
\* 'questions' mode unmounts QuestionsInput, entering it mounts a new one
\* whose state is the initial state of QuestionsInput.tsx:17-18.
setAnalysisMode(mode) ==
  /\ app = "goal"
  /\ mode # analysisMode
  /\ analysisMode' = mode
  /\ qiQuestions' = << <<>> >>
  /\ showExamples' = FALSE
  /\ UNCHANGED << app, useNewEndpoint, file, domFile, loading, results, error,
                  questions, calls >>
  /\ fetches' = 0

ModeChange == \E mode \in { "goal", "questions" } : setAnalysisMode(mode)

\* ------------------------------------------------------------ QuestionsInput
\* Mutant of handleQuestionChange: onChange receives the new list unfiltered.
handleQuestionChange_unfiltered(index, value) ==
  LET newQuestions == [qiQuestions EXCEPT ![index] = value] IN
    /\ qiQuestions' = newQuestions
    /\ questions' = newQuestions

\* QuestionsInput.tsx:20-25.  onChange is the parent's setQuestions.
handleQuestionChange(index, value) ==
  LET newQuestions == [qiQuestions EXCEPT ![index] = value] IN
    /\ qiQuestions' = newQuestions
    /\ questions' = FilterNonBlank(newQuestions)

QuestionChange ==
  /\ QuestionsInputMounted
  /\ \E index \in 1..Len(qiQuestions), value \in TypedTexts :
       /\ value # qiQuestions[index]
       /\ handleQuestionChange(index, value)
  /\ UNCHANGED << app, useNewEndpoint, file, domFile, loading, results, error,
                  analysisMode, showExamples, calls >>
  /\ fetches' = 0

\* QuestionsInput.tsx:27-29.
addQuestion ==
  /\ QuestionsInputMounted
  /\ Len(qiQuestions) < MaxRows
  /\ qiQuestions' = Append(qiQuestions, <<>>)
  /\ UNCHANGED << app, useNewEndpoint, file, domFile, loading, results, error,
                  questions, analysisMode, showExamples, calls >>
  /\ fetches' = 0

\* Mutant of removeQuestion: the list is stored without the [''] fallback.
removeQuestion_noFallback(index) ==
  LET newQuestions == RemoveAt(qiQuestions, index) IN
    /\ QuestionsInputMounted
    /\ qiQuestions' = newQuestions
    /\ questions' = FilterNonBlank(newQuestions)
    /\ UNCHANGED << app, useNewEndpoint, file, domFile, loading, results, error,
                    analysisMode, showExamples, calls >>
    /\ fetches' = 0

\* QuestionsInput.tsx:31-35.
removeQuestion(index) ==
  LET newQuestions == RemoveAt(qiQuestions, index) IN
    /\ QuestionsInputMounted
    /\ qiQuestions' = IF Len(newQuestions) # 0 THEN newQuestions ELSE << <<>> >>
    /\ questions' = FilterNonBlank(newQuestions)
    /\ UNCHANGED << app, useNewEndpoint, file, domFile, loading, results, error,
                    analysisMode, showExamples, calls >>
    /\ fetches' = 0

RemoveClick == \E index \in 1..Len(qiQuestions) : removeQuestion(index)

\* QuestionsInput.tsx:52-58: the 'See examples' / 'Hide examples' button.
toggleShowExamples ==
  /\ QuestionsInputMounted
  /\ showExamples' = ~showExamples
  /\ UNCHANGED << app, useNewEndpoint, file, domFile, loading, results, error,
                  questions, analysisMode, qiQuestions, calls >>
  /\ fetches' = 0

\* Mutant of handleExampleClick: the example always goes into the first row.
handleExampleClick_overwritesFirst(example) ==
  /\ QuestionsInputMounted
  /\ showExamples
  /\ handleQuestionChange(1, example)
  /\ showExamples' = FALSE
  /\ UNCHANGED << app, useNewEndpoint, file, domFile, loading, results, error,
                  analysisMode, calls >>
  /\ fetches' = 0

\* QuestionsInput.tsx:37-46.  The examples are clickable while they are shown.
handleExampleClick(example) ==
  LET emptyIndex == FindEmptyIndex(qiQuestions) IN
    /\ QuestionsInputMounted
    /\ showExamples
    /\ IF emptyIndex >= 1
       THEN handleQuestionChange(emptyIndex, example)
       ELSE /\ Len(qiQuestions) < MaxRows
            /\ qiQuestions' = Append(qiQuestions, example)
            /\ questions' = Append(FilterNonBlank(qiQuestions), example)
    /\ showExamples' = FALSE
    /\ UNCHANGED << app, useNewEndpoint, file, domFile, loading, results, error,
                    analysisMode, calls >>
    /\ fetches' = 0

ExampleClick == \E example \in QUESTION_EXAMPLES : handleExampleClick(example)

\* ------------------------------------------------------------ render
\* App.tsx:171 and 405: {loading && <LoadingSpinner />}
SpinnerVisible == loading

\* App.tsx:172 and 406: {error && <ErrorDisplay ... />}; '' is falsy.
ErrorDisplayVisible == IsSome(error) /\ Val(error) # ""

\* ErrorDisplay.tsx:12-19: the button is rendered when onRetry is passed, and
\* both Apps pass it.
TryAgainVisible == ErrorDisplayVisible

\* App.tsx:173 and 407-409: {results && !loading && !error && <AnalysisResults />}
ResultsVisible == IsSome(results) /\ ~loading /\ ~ErrorDisplayVisible

\* Mutant of SubmitDisabled: the button is disabled by a missing file only.
SubmitDisabled_ignoresLoading == ~IsSome(file)

\* App.tsx:163 and 397: disabled={loading || !file}
SubmitDisabled == loading \/ ~IsSome(file)

\* App.tsx:141-148 and 375-382: the file input is `required`, so the browser
\* fires no submit event while it holds no file.  The other required fields
\* are taken to be filled in.
FormValid == IsSome(domFile)

\* part_002:70-135: the cards of AnalysisResults, answers before
\* recommendations.
AnswerCards(r) == IF IsSome(r.answers) THEN Val(r.answers) ELSE <<>>

\* Mutant of RecommendationCards: the recommendations are rendered whether or
\* not there are answers.
RecommendationCards_ignoresAnswers(r) ==
  IF IsSome(r.recommendations) THEN Val(r.recommendations) ELSE <<>>

RecommendationCards(r) ==
  IF IsSome(r.answers) THEN <<>>
  ELSE IF IsSome(r.recommendations) THEN Val(r.recommendations) ELSE <<>>

\* (x * 100).toFixed(0) for x held in thousandths: the nearest integer to the
\* percentage, the larger one at a tie.
toFixed0(thousandths) == (thousandths + 5) \div 10

\* part_002:76-88: {answer.confidence && (bar and label)}.  An absent value
\* and 0 are falsy, and then neither bar nor label is rendered; otherwise the
\* label is the percentage.
AnswerConfidenceLabel(answer) ==
  IF IsSome(answer.confidence) /\ Val(answer.confidence) # 0
  THEN Some(toFixed0(Val(answer.confidence)))
  ELSE None

\* RecommendationCard.tsx:28-38: bar and label are rendered unconditionally.
RecommendationConfidenceLabel(confidence) == Some(toFixed0(confidence))

\* Mutant of KeyMetricsSection: the section is rendered for any metrics object.
KeyMetricsSection_noLengthCheck(r) == IsSome(r.metrics)

\* part_002:139: results.metrics && Object.keys(results.metrics).length > 0
KeyMetricsSection(r) == IsSome(r.metrics) /\ Cardinality(Val(r.metrics)) > 0

\* part_002:139-141 and part_003:69-85: one tile per key of results.metrics.
MetricsTiles(r) == IF KeyMetricsSection(r) THEN Val(r.metrics) ELSE {}

\* ------------------------------------------------------------ handleSubmit
\* Invocations are told apart by a number no running invocation has.
FreshId ==
  CHOOSE i \in 1..(Cardinality(calls) + 1) :
    /\ \A c \in calls : c.id # i
    /\ \A j \in 1..(i - 1) : \E c \in calls : c.id = j

\* The part of handleSubmit up to its first await: the request is built from
\* the state of the render the handler belongs to and fetch is called.  The
\* invocation keeps the values its closure captured; the request is held until
\* fetch settles.  The 'questions' field is JSON.stringify(questions), held
\* here as the list it encodes.
NewCall(endpoint, questionsField) ==
  [ id |-> FreshId,
    pc |-> "fetch",
    useNewEndpoint |-> useNewEndpoint,
    endpoint |-> endpoint,
    request |-> Some([ endpoint |-> endpoint,
                       file |-> IF IsSome(file) THEN file ELSE None,
                       questions |-> questionsField ]),
    statusText |-> "",
    resultsBefore |-> results ]

\* Mutant of handleSubmit_toggle: the request always goes to analyze-dynamic.
handleSubmit_toggle_fixedEndpoint ==
  /\ app = "toggle"
  /\ ~SubmitDisabled
  /\ FormValid
  /\ loading' = TRUE
  /\ error' = None
  /\ calls' = calls \cup { NewCall("analyze-dynamic", None) }
  /\ fetches' = 1
  /\ UNCHANGED << app, results, formVars >>

\* Mutant of handleSubmit_toggle: the error of the last submit is not cleared.
handleSubmit_toggle_keepsError ==
  /\ app = "toggle"
  /\ ~SubmitDisabled
  /\ FormValid
  /\ loading' = TRUE
  /\ UNCHANGED error
  /\ calls' = calls \cup
       { NewCall(IF useNewEndpoint THEN "analyze-dynamic" ELSE "analyze", None) }
  /\ fetches' = 1
  /\ UNCHANGED << app, results, formVars >>

\* App.tsx:21-41 (endpoint-toggle App).
handleSubmit_toggle ==
  /\ app = "toggle"
  /\ ~SubmitDisabled
  /\ FormValid
  /\ loading' = TRUE
  /\ error' = None
  /\ calls' = calls \cup
       { NewCall(IF useNewEndpoint THEN "analyze-dynamic" ELSE "analyze", None) }
  /\ fetches' = 1
  /\ UNCHANGED << app, results, formVars >>

\* Mutant of handleSubmit_goal: the questions are sent whatever the mode is.
handleSubmit_goal_anyMode ==
  /\ app = "goal"
  /\ ~SubmitDisabled
  /\ FormValid
  /\ loading' = TRUE
  /\ error' = None
  /\ calls' = calls \cup
       { NewCall("analyze-dynamic",
                 IF Len(questions) > 0 THEN Some(questions) ELSE None) }
  /\ fetches' = 1
  /\ UNCHANGED << app, results, formVars >>

\* App.tsx:223-246 (goal/questions App).
handleSubmit_goal ==
  /\ app = "goal"
  /\ ~SubmitDisabled
  /\ FormValid
  /\ loading' = TRUE
  /\ error' = None
  /\ calls' = calls \cup
       { NewCall("analyze-dynamic",
                 IF analysisMode = "questions" /\ Len(questions) > 0
                 THEN Some(questions) ELSE None) }
  /\ fetches' = 1
  /\ UNCHANGED << app, results, formVars >>

\* Mutant of catch: the handler also drops the results of earlier submits.
catch_dropsResults(thrown) ==
  /\ error' = Some(IF thrown.isError THEN thrown.message
                   ELSE "An unexpected error occurred")
  /\ results' = None

\* App.tsx:68-70 and 264-266.
catch(thrown) ==
  /\ error' = Some(IF thrown.isError THEN thrown.message
                   ELSE "An unexpected error occurred")
  /\ UNCHANGED results

\* Mutant of finally: loading is not reset when the invocation returns.
finally_leavesLoading(c) ==
  /\ UNCHANGED loading
  /\ calls' = calls \ {c}
  /\ UNCHANGED << app, formVars >>
  /\ fetches' = 0

\* App.tsx:71-73 and 267-269; the invocation returns.
finally(c) ==
  /\ loading' = FALSE
  /\ calls' = calls \ {c}
  /\ UNCHANGED << app, formVars >>
  /\ fetches' = 0

\* App.tsx:38 and 243: fetch rejects.
fetchRejects(c) ==
  /\ c.pc = "fetch"
  /\ catch(NetworkError)
  /\ finally(c)

\* App.tsx:38-51 and 243-256: fetch resolves; the handler awaits
\* response.text() when the response is not ok and response.json() otherwise.
fetchResolves(c, ok, statusText) ==
  /\ c.pc = "fetch"
  /\ calls' = (calls \ {c}) \cup
       { [c EXCEPT !.pc = IF ok THEN "json" ELSE "text",
                   !.statusText = statusText,
                   !.request = None] }
  /\ UNCHANGED << app, formVars, loading, results, error >>
  /\ fetches' = 0

\* App.tsx:45-49 and 250-254.
textSettles(c, resolved) ==
  /\ c.pc = "text"
  /\ catch(IF resolved THEN Error("Analysis failed: " \o c.statusText)
           ELSE NetworkError)
  /\ finally(c)

\* App.tsx:51 and 256: response.json() rejects.
jsonRejects(c) ==
  /\ c.pc = "json"
  /\ catch(ParseError)
  /\ finally(c)

\* App.tsx:53-55 and 258-260: data.error || 'Analysis failed'
FailureMessage(data) ==
  IF IsSome(data.error) /\ Val(data.error) # "" THEN Val(data.error)
  ELSE "Analysis failed"

\* Mutant of mapResponse_toggle: the body is stored as it came, whatever the
\* endpoint.
mapResponse_toggle_unmapped(c, data) ==
  /\ results' = data.data
  /\ UNCHANGED error

\* Mutant of mapResponse_toggle: the mapping reads the checkbox as it is when
\* the response arrives, not as the invocation captured it.
mapResponse_toggle_currentCheckbox(c, data) ==
  IF useNewEndpoint
  THEN IF IsSome(data.data)
       THEN /\ results' = Some([ recommendations |-> Val(data.data).recommendations,
                                 answers |-> None,
                                 analysis |-> None,
                                 metrics |-> Val(data.data).analysis ])
            /\ UNCHANGED error
       ELSE catch(PropertyOfUndefined)
  ELSE /\ results' = data.data
       /\ UNCHANGED error

\* App.tsx:57-67 (endpoint-toggle App): the mapping of a successful body.
mapResponse_toggle(c, data) ==
  IF c.useNewEndpoint
  THEN IF IsSome(data.data)
       THEN /\ results' = Some([ recommendations |-> Val(data.data).recommendations,
                                 answers |-> None,
                                 analysis |-> None,
                                 metrics |-> Val(data.data).analysis ])
            /\ UNCHANGED error
       ELSE catch(PropertyOfUndefined)
  ELSE /\ results' = data.data
       /\ UNCHANGED error

\* App.tsx:262 (goal/questions App).
mapResponse_goal(c, data) ==
  /\ results' = data.data
  /\ UNCHANGED error

\* App.tsx:51-73 and 256-269: response.json() resolves.
jsonResolves(c, data) ==
  /\ c.pc = "json"
  /\ IF ~data.success THEN catch(Error(FailureMessage(data)))
     ELSE IF app = "toggle" THEN mapResponse_toggle(c, data)
     ELSE mapResponse_goal(c, data)
  /\ finally(c)

\* Mutant of onRetry: 'Try Again' sends the request again.
onRetry_resends ==
  /\ TryAgainVisible
  /\ error' = None
  /\ loading' = TRUE
  /\ fetches' = 1
  /\ calls' = calls \cup { NewCall("analyze-dynamic", None) }
  /\ UNCHANGED << app, formVars, results >>

\* App.tsx:172 and 406: onRetry={() => setError(null)}
onRetry ==
  /\ TryAgainVisible
  /\ error' = None
  /\ UNCHANGED << app, formVars, loading, results, calls >>
  /\ fetches' = 0

\* ------------------------------------------------------------ specification
FetchRejects == \E c \in calls : fetchRejects(c)
FetchResolves == \E c \in calls, ok \in BOOLEAN, statusText \in StatusTexts :
                   /\ (ok => statusText = "")
                   /\ fetchResolves(c, ok, statusText)
TextSettles == \E c \in calls, resolved \in BOOLEAN : textSettles(c, resolved)
JsonRejects == \E c \in calls : jsonRejects(c)
JsonResolves == \E c \in calls, data \in JsonBodies : jsonResolves(c, data)

\* App.tsx:173 and 407-409: when the condition of AnalysisResults turns false
\* the component is unmounted with its button; a later mount creates a new
\* button, and the saves under way keep the old one.
Unmount ==
  IF ResultsVisible /\ ~ResultsVisible'
  THEN /\ exportHidden' = FALSE
       /\ saves' = { [button |-> "detached"] : s \in saves }
  ELSE UNCHANGED exportVars

\* What a step of the App does outside its own state.
AppFrame == Unmount /\ UNCHANGED << cardVars, promptVars >>

\* History: a step that neither starts nor completes a submit.
Event(kind) == lastEvent' = kind /\ UNCHANGED lastOutcome /\ AppFrame

\* History: a step that starts an invocation of handleSubmit.
SubmitStarted == lastEvent' = "submit" /\ lastOutcome' = "pending" /\ AppFrame

\* History: a step in which an invocation of handleSubmit returns; it failed
\* if its catch block set the error.
Completed ==
  /\ lastEvent' = "settle"
  /\ lastOutcome' = IF IsSome(error') THEN "failed" ELSE "ok"
  /\ AppFrame

\* A promise an invocation of handleSubmit awaits settles.
Settle ==
  \/ FetchRejects /\ Completed
  \/ FetchResolves /\ Event("settle")
  \/ TextSettles /\ Completed
  \/ JsonRejects /\ Completed
  \/ JsonResolves /\ Completed

\* The user edits the form.
Edit ==
  \/ FileChange /\ Event("edit")
  \/ CheckboxChange /\ Event("edit")
  \/ ModeChange /\ Event("edit")
  \/ QuestionChange /\ Event("edit")
  \/ addQuestion /\ Event("edit")
  \/ RemoveClick /\ Event(IF Len(qiQuestions) = 1 THEN "removeOnly" ELSE "remove")
  \/ toggleShowExamples /\ Event("edit")
  \/ ExampleClick /\ Event("example")

\* The user submits the form.
Submit ==
  \/ handleSubmit_toggle /\ SubmitStarted
  \/ handleSubmit_goal /\ SubmitStarted

\* The user clicks 'Try Again'.
Retry == onRetry /\ Event("retry")

Next ==
  \/ Edit
  \/ Submit
  \/ Settle
  \/ Retry

Spec == Init /\ [][Next]_vars

\* Every pending promise of an invocation settles: the browser's network stack
\* answers or fails each fetch and each body read.
FairSpec == Spec /\ WF_vars(Settle)

\* ------------------------------------------------------------ PDF export
\* part_002:37-51 and part_003:15-29: a click on 'Export to PDF'.  The button
\* found by querySelector is hidden and save() is started.
handleExport ==
  /\ ResultsVisible
  /\ ~exportHidden
  /\ exportHidden' = TRUE
  /\ saves' = saves \cup { [button |-> "mounted"] }
  /\ UNCHANGED << appVars, cardVars, promptVars >>

\* part_002:51-53 and part_003:29-31: save() fulfils and the then callback
\* shows the button it captured.
saveResolves(s) ==
  /\ saves' = saves \ {s}
  /\ exportHidden' = IF s.button = "mounted" THEN FALSE ELSE exportHidden
  /\ UNCHANGED << appVars, cardVars, promptVars >>

\* part_002:51-53 and part_003:29-31: save() rejects; the chain has no
\* rejection handler, so nothing runs.
saveRejects(s) ==
  /\ saves' = saves \ {s}
  /\ UNCHANGED exportHidden
  /\ UNCHANGED << appVars, cardVars, promptVars >>

SaveResolves == \E s \in saves : saveResolves(s)
SaveRejects == \E s \in saves : saveRejects(s)

\* The save() of an export settles.
SaveSettles ==
  \/ SaveResolves
  \/ SaveRejects

ExportNext ==
  \/ Next
  \/ handleExport
  \/ SaveSettles

ExportSpec == Init /\ [][ExportNext]_vars

\* html2pdf ends every save, and the network every request.
ExportFairSpec == ExportSpec /\ WF_vars(SaveSettles) /\ WF_vars(Settle)

\* ------------------------------------------------------------ RecommendationCard
\* A field of supporting_data: an array of strings or a string.
Field(isArray, items, text) == [isArray |-> isArray, items |-> items, text |-> text]
ArrayField(items) == Field(TRUE, items, "")
StringField(text) == Field(FALSE, <<>>, text)

\* JavaScript truthiness of a field that may be absent: an array is truthy
\* even when empty, a string when it is not ''.
TruthyField(f) == IsSome(f) /\ (Val(f).isArray \/ Val(f).text # "")

\* Array.prototype.join(', ')
RECURSIVE join(_)
join(items) ==
  IF items = <<>> THEN ""
  ELSE IF Len(items) = 1 THEN items[1]
  ELSE items[1] \o ", " \o join(Tail(items))

\* RecommendationCard.tsx:58-60 and 68-70: an array is joined, anything else
\* is rendered as it is.
FieldText(f) == IF Val(f).isArray THEN join(Val(f).items) ELSE Val(f).text

\* The values of supporting_data (RecommendationCard.tsx:12-17): absent, a
\* string, or an object with its four optional fields.
ScalarFields == { None, Some(StringField("")), Some(StringField("s")) }
ListFields ==
  ScalarFields \cup { Some(ArrayField(l)) : l \in { <<>>, <<"a">>, <<"a", "b">> } }
NoFields ==
  [ insight |-> None, key_metrics |-> None, relationships |-> None,
    statistical_evidence |-> None ]
SupportingData ==
  { [type |-> "undefined", text |-> "", fields |-> NoFields] }
  \cup { [type |-> "string", text |-> t, fields |-> NoFields] : t \in { "", "old format" } }
  \cup { [type |-> "object", text |-> "",
          fields |-> [ insight |-> i, key_metrics |-> k, relationships |-> r,
                       statistical_evidence |-> e ]] :
         i \in ScalarFields, k \in ListFields, r \in ListFields, e \in ScalarFields }

\* JavaScript truthiness of supporting_data: an object is truthy, a string
\* when it is not ''.
TruthyData(sd) == sd.type = "object" \/ (sd.type = "string" /\ sd.text # "")

\* One section of the Supporting Data block, or nothing.
Section(title, f) ==
  IF TruthyField(f) THEN << [title |-> title, text |-> FieldText(f)] >> ELSE <<>>

\* What the card renders for supporting_data.
View(block, plain, sections) == [block |-> block, plain |-> plain, sections |-> sections]

\* Mutant of SupportingDataBlock: the card knows the old string format only
\* and renders no sections.
SupportingDataBlock_stringOnly(sd) ==
  IF ~TruthyData(sd) THEN View(FALSE, None, <<>>)
  ELSE View(TRUE, Some(sd.text), <<>>)

\* RecommendationCard.tsx:41-85.
SupportingDataBlock(sd) ==
  IF ~TruthyData(sd) THEN View(FALSE, None, <<>>)
  ELSE IF sd.type = "object"
  THEN View(TRUE, None,
            Section("Insight:", sd.fields.insight)
            \o Section("Key Metrics:", sd.fields.key_metrics)
            \o Section("Relationships:", sd.fields.relationships)
            \o Section("Statistical Evidence:", sd.fields.statistical_evidence))
  ELSE View(TRUE, Some(sd.text), <<>>)

\* A card is handed a recommendation.
CardInit ==
  /\ AppInit
  /\ recommendation \in { Some([supporting_data |-> sd]) : sd \in SupportingData }
  /\ cardView = None
  /\ ExportIdle
  /\ PromptIdle

\* The card renders.
RenderCard ==
  /\ IsSome(recommendation)
  /\ cardView = None
  /\ cardView' = Some(SupportingDataBlock(Val(recommendation).supporting_data))
  /\ UNCHANGED << appVars, recommendation, exportVars, promptVars >>

CardNext == RenderCard

CardSpec == CardInit /\ [][CardNext]_vars

\* ------------------------------------------------------------ prompt templates
\* The OUTPUT_STRUCTURE sections of the user templates, character by
\* character: braces and brackets as they are, "n" for a line end and "x" for
\* a run of other characters (none of the quoted strings holds a brace or a
\* bracket).
\* part_000:29-47, one row per line of the template.
analysis_OUTPUT_STRUCTURE ==
  << "x", "{", "{", "n" >>
  \o << "x", "[", "n" >>
  \o << "x", "{", "{", "n" >>
  \o << "x", "n" >>
  \o << "x", "n" >>
  \o << "x", "n" >>
  \o << "x", "}", "}", "}", "}", "x", "n" >>
  \o << "x", "{", "{", "n" >>
  \o << "x", "n" >>
  \o << "x", "n" >>
  \o << "x", "n" >>
  \o << "x", "}", "}", "x", "n" >>
  \o << "x", "{", "{", "n" >>
  \o << "x", "n" >>
  \o << "x", "n" >>
  \o << "x", "n" >>
  \o << "x", "}", "}", "n" >>
  \o << "x", "]", "n" >>
  \o << "x", "}", "}", "n" >>

\* part_000:124-152, one row per line of the template.
recommendations_OUTPUT_STRUCTURE ==
  << "x", "{", "{", "n" >>
  \o << "x", "[", "n" >>
  \o << "x", "{", "{", "n" >>
  \o << "x", "n" >>
  \o << "x", "n" >>
  \o << "x", "{", "{", "n" >>
  \o << "x", "n" >>
  \o << "x", "[", "x", "]", "x", "n" >>
  \o << "x", "[", "x", "]", "x", "n" >>
  \o << "x", "n" >>
  \o << "x", "}", "}", "x", "n" >>
  \o << "x", "[", "n" >>
  \o << "x", "n" >>
  \o << "x", "n" >>
  \o << "x", "n" >>
  \o << "x", "]", "x", "n" >>
  \o << "x", "{", "{", "n" >>
  \o << "x", "n" >>
  \o << "x", "n" >>
  \o << "x", "n" >>
  \o << "x", "}", "}", "x", "n" >>
  \o << "x", "n" >>
  \o << "x", "{", "{", "n" >>
  \o << "x", "n" >>
  \o << "x", "n" >>
  \o << "x", "}", "}", "n" >>
  \o << "x", "}", "}", "n" >>
  \o << "x", "]", "n" >>
  \o << "x", "}", "}", "n" >>

\* part_000:187-200, one row per line of the template.
question_answering_OUTPUT_STRUCTURE ==
  << "x", "{", "{", "n" >>
  \o << "x", "[", "n" >>
  \o << "x", "{", "{", "n" >>
  \o << "x", "n" >>
  \o << "x", "n" >>
  \o << "x", "n" >>
  \o << "x", "{", "{", "n" >>
  \o << "x", "[", "x", "]", "x", "n" >>
  \o << "x", "[", "x", "]", "x", "n" >>
  \o << "x", "n" >>
  \o << "x", "}", "}", "n" >>
  \o << "x", "}", "}", "n" >>
  \o << "x", "]", "n" >>
  \o << "x", "}", "}", "n" >>

\* The templates by their key.
Templates ==
  [ analysis |-> analysis_OUTPUT_STRUCTURE,
    recommendations |-> recommendations_OUTPUT_STRUCTURE,
    question_answering |-> question_answering_OUTPUT_STRUCTURE ]

TemplateText == Templates[Val(template)]

\* The character at position i of the template, "" past its end.
At(i) == IF i <= Len(TemplateText) THEN TemplateText[i] ELSE ""

\* A template is handed to the interpolation.
PromptInit ==
  /\ AppInit
  /\ CardIdle
  /\ ExportIdle
  /\ template \in { Some(t) : t \in DOMAIN Templates }
  /\ pos = 1
  /\ prompt = <<>>
  /\ pc = "format"

\* One step of the interpolation (format-string syntax, as the placeholders
\* of part_000:13-26 use it): '{{' and '}}' become one literal brace, a
\* single '}' is an error, any other character is copied.  The sections
\* hold no single '{'.
formatStep ==
  /\ pc = "format"
  /\ pos <= Len(TemplateText)
  /\ IF At(pos) \in { "{", "}" } /\ At(pos + 1) = At(pos)
     THEN /\ prompt' = Append(prompt, At(pos))
          /\ pos' = pos + 2
          /\ UNCHANGED pc
     ELSE IF At(pos) \in { "{", "}" }
     THEN /\ pc' = "error"
          /\ UNCHANGED << prompt, pos >>
     ELSE /\ prompt' = Append(prompt, At(pos))
          /\ pos' = pos + 1
          /\ UNCHANGED pc
  /\ UNCHANGED template
  /\ UNCHANGED << appVars, cardVars, exportVars >>

\* The end of the template is reached: the prompt is complete.
formatDone ==
  /\ pc = "format"
  /\ pos > Len(TemplateText)
  /\ pc' = "done"
  /\ UNCHANGED << template, pos, prompt >>
  /\ UNCHANGED << appVars, cardVars, exportVars >>

PromptNext ==
  \/ formatStep
  \/ formatDone

PromptSpec == PromptInit /\ [][PromptNext]_vars

\* ------------------------------------------------------------ claims
\* The steps in which an invocation c of handleSubmit ends in failure.
FetchFails(c) == fetchRejects(c)
HttpFails(c) == \E resolved \in BOOLEAN : textSettles(c, resolved)
ParseFails(c) == jsonRejects(c)
SuccessFalse(c) == \E data \in JsonBodies : ~data.success /\ jsonResolves(c, data)
SubmitFails(c) == FetchFails(c) \/ HttpFails(c) \/ ParseFails(c) \/ SuccessFalse(c)

\* C1: in both Apps, when a submit fails (fetch rejects, the response is not
\* ok, or the body has success = false) the step that handles the failure
\* sets error to a non-null message, leaves results as they were before the
\* submit, and the error panel with its 'Try Again' button is shown.
C1_FailedSubmitShowsError ==
  [][ \A c \in calls :
        SubmitFails(c) =>
          /\ IsSome(error')
          /\ results' = results
          /\ results' = c.resultsBefore
          /\ ErrorDisplayVisible'
          /\ TryAgainVisible' ]_vars

\* A failed submit has been handled while results of an earlier submit exist.
C1_Witness ==
  /\ lastEvent = "settle"
  /\ calls = {}
  /\ ErrorDisplayVisible
  /\ IsSome(results)

\* C2: at most one analyze request is in flight: loading is true exactly
\* while an invocation of handleSubmit has not returned, and a submit starts
\* only while loading is false and a file is selected.
C2_SingleRequestInFlight ==
  /\ [](Cardinality(calls) <= 1)
  /\ [](loading <=> calls # {})
  /\ [][ lastEvent' = "submit" => ~loading /\ IsSome(file) ]_vars

\* A request is in flight and the submit button is disabled by loading alone.
C2_Witness ==
  /\ Cardinality(calls) = 1
  /\ loading
  /\ IsSome(file)
  /\ FormValid

\* C3: there is no retry policy: fetch is called once per submit and only by
\* a submit, and a click on 'Try Again' sets error to null and changes nothing
\* else (loading, results, file, questions) and issues no request.
C3_NoRetryPolicy ==
  /\ [](fetches = IF lastEvent = "submit" THEN 1 ELSE 0)
  /\ [][ lastEvent' = "retry" =>
            /\ error' = None
            /\ fetches' = 0
            /\ UNCHANGED << loading, results, file, questions, calls >> ]_vars

\* 'Try Again' was clicked after a failed submit: the error is gone, no
\* request was sent and none is in flight.
C3_Witness ==
  /\ lastEvent = "retry"
  /\ fetches = 0
  /\ calls = {}
  /\ ~loading
  /\ error = None

\* C4: every submit returns the UI to loading = false once the promises it
\* awaits have settled, whichever path the handler takes.
C4_LoadingEventuallyFalse == loading ~> ~loading

\* C4, the paths: every step in which an invocation returns leaves loading
\* false.  (Checked with C4_LoadingEventuallyFalse as one formula.)
C4_EverySubmitEndsLoading ==
  /\ C4_LoadingEventuallyFalse
  /\ [][ (\E c \in calls : c \notin calls' /\ c.id \notin { d.id : d \in calls' })
            => ~loading' ]_vars

\* An exception while mapping the response has been caught and loading is off.
C4_Witness ==
  /\ lastEvent = "settle"
  /\ calls = {}
  /\ ~loading
  /\ error = Some(PropertyOfUndefined.message)

\* The invocation a submit step starts.
Started == calls' \ calls

\* C5: in the goal/questions App the optional fields of a request are fixed by
\* the state at submit time: 'file' is appended iff file is non-null,
\* 'questions' iff analysisMode is 'questions' and the parent's list is
\* non-empty, and a request made in 'goal' mode carries no 'questions'.
C5_OptionalFields ==
  [][ (app = "goal" /\ lastEvent' = "submit") =>
        /\ Cardinality(Started) = 1
        /\ \A c \in Started :
             LET rq == Val(c.request) IN
               /\ IsSome(rq.file) <=> IsSome(file)
               /\ IsSome(rq.file) => rq.file = file
               /\ IsSome(rq.questions) <=>
                    (analysisMode = "questions" /\ Len(questions) > 0)
               /\ IsSome(rq.questions) => Val(rq.questions) = questions
               /\ analysisMode = "goal" => rq.questions = None ]_vars

\* A request made in 'goal' mode is on its way without 'questions' although
\* the parent still holds questions entered earlier.
C5_Witness ==
  /\ app = "goal"
  /\ lastEvent = "submit"
  /\ analysisMode = "goal"
  /\ questions # <<>>
  /\ \E c \in calls :
       /\ c.pc = "fetch"
       /\ IsSome(Val(c.request).file)
       /\ Val(c.request).questions = None

\* The non-blank questions the question inputs show, in displayed order; no
\* inputs are shown while QuestionsInput is not mounted.
ShownQuestions ==
  IF QuestionsInputMounted THEN FilterNonBlank(qiQuestions) ELSE <<>>

\* The questions a request carries.
SentQuestions(c) ==
  IF IsSome(Val(c.request).questions) THEN Val(Val(c.request).questions) ELSE <<>>

\* C6: the questions sent in a request are exactly the non-blank questions
\* shown in the question inputs at the submit, in displayed order, after any
\* sequence of edits, added and removed rows, examples and mode switches.
C6_SentQuestionsAreShown ==
  [][ (app = "goal" /\ lastEvent' = "submit") =>
        \A c \in Started : SentQuestions(c) = ShownQuestions ]_vars

\* C7: the endpoint-toggle App requests 'analyze-dynamic' iff the checkbox is
\* checked at the submit and 'analyze' otherwise; the goal/questions App
\* requests 'analyze-dynamic' in both modes.
C7_Endpoint ==
  [][ lastEvent' = "submit" =>
        /\ Cardinality(Started) = 1
        /\ \A c \in Started :
             /\ Val(c.request).endpoint = c.endpoint
             /\ c.endpoint \in { "analyze", "analyze-dynamic" }
             /\ app = "toggle" =>
                  (c.endpoint = "analyze-dynamic" <=> useNewEndpoint)
             /\ app = "goal" => c.endpoint = "analyze-dynamic" ]_vars

\* The endpoint-toggle App, its checkbox unchecked at the submit, has a
\* request to 'analyze' on its way.
C7_Witness ==
  /\ app = "toggle"
  /\ lastEvent = "submit"
  /\ ~useNewEndpoint
  /\ \E c \in calls : c.pc = "fetch" /\ Val(c.request).endpoint = "analyze"

\* A body of the shape { success, data: { recommendations | answers, analysis } }
\* with a non-empty analysis object.
ExpectedShape(data) ==
  /\ data.success
  /\ IsSome(data.data)
  /\ IsSome(Val(data.data).recommendations) \/ IsSome(Val(data.data).answers)
  /\ IsSome(Val(data.data).analysis)
  /\ Val(Val(data.data).analysis) # {}
  /\ Val(data.data).metrics = None

\* C8: in the goal/questions App, after a successful response of the expected
\* shape with a non-empty analysis object the results view shows the
\* recommendations or answers and shows the analysis entries as Key Metrics.
C8_AnalysisShownAsKeyMetrics ==
  [][ \A c \in calls, data \in JsonBodies :
        (app = "goal" /\ ExpectedShape(data) /\ jsonResolves(c, data)) =>
          /\ ResultsVisible'
          /\ AnswerCards(Val(results')) \o RecommendationCards(Val(results')) =
               (IF IsSome(Val(data.data).answers)
                THEN Val(Val(data.data).answers)
                ELSE Val(Val(data.data).recommendations))
          /\ MetricsTiles(Val(results')) = Val(Val(data.data).analysis) ]_vars

PanelsVisible ==
  (IF SpinnerVisible THEN 1 ELSE 0) + (IF ErrorDisplayVisible THEN 1 ELSE 0)
    + (IF ResultsVisible THEN 1 ELSE 0)

\* C10: in every rendered state at most one of the spinner (loading), the
\* error panel (error non-null) and the results panel (results non-null, not
\* loading, error null) is visible.
C10_AtMostOnePanel ==
  /\ PanelsVisible <= 1
  /\ ~(loading /\ IsSome(error))
  /\ ErrorDisplayVisible <=> IsSome(error)
  /\ ResultsVisible <=> (IsSome(results) /\ ~loading /\ error = None)

\* Results of an earlier submit exist and are hidden behind the spinner of a
\* new submit.
C10_Witness ==
  /\ IsSome(results)
  /\ SpinnerVisible
  /\ ~ResultsVisible
  /\ PanelsVisible = 1

\* C11: AnalysisResults renders either answers or recommendations, never both:
\* with results.answers present (an empty list included) one answer card per
\* answer in order and no recommendation card, even if recommendations are
\* present too; with answers absent one RecommendationCard per recommendation
\* in order, and none if recommendations is absent.
C11_AnswersOrRecommendations ==
  IsSome(results) =>
    LET r == Val(results) IN
      /\ AnswerCards(r) = <<>> \/ RecommendationCards(r) = <<>>
      /\ IsSome(r.answers) =>
           /\ AnswerCards(r) = Val(r.answers)
           /\ RecommendationCards(r) = <<>>
      /\ (r.answers = None /\ IsSome(r.recommendations)) =>
           /\ AnswerCards(r) = <<>>
           /\ RecommendationCards(r) = Val(r.recommendations)
      /\ (r.answers = None /\ r.recommendations = None) =>
           /\ AnswerCards(r) = <<>>
           /\ RecommendationCards(r) = <<>>

\* The results view is shown for results with an empty list of answers next to
\* a recommendation: no card at all is rendered.
C11_Witness ==
  /\ ResultsVisible
  /\ Val(results).answers = Some(<<>>)
  /\ Val(results).recommendations = Some(<<"r1">>)
  /\ AnswerCards(Val(results)) = <<>>
  /\ RecommendationCards(Val(results)) = <<>>

\* The checkbox differs from what it was when invocation c was submitted.
ToggledInFlight(c) == useNewEndpoint # (c.endpoint = "analyze-dynamic")

\* C12: in the endpoint-toggle App, toggling 'Use Dynamic Analysis' while a
\* request is in flight changes neither the invocation nor the handling of
\* its response: the response is mapped by the endpoint chosen at the submit.
C12_ToggleInFlight ==
  /\ [][ lastEvent' = "edit" /\ useNewEndpoint' # useNewEndpoint
            => UNCHANGED << calls, loading, results, error >> ]_vars
  /\ [][ \A c \in calls, data \in JsonBodies :
            (app = "toggle" /\ ToggledInFlight(c) /\ data.success
               /\ jsonResolves(c, data)) =>
              /\ (c.endpoint = "analyze-dynamic" /\ IsSome(data.data)) =>
                   /\ results' =
                        Some([ recommendations |-> Val(data.data).recommendations,
                               metrics |-> Val(data.data).analysis,
                               answers |-> None,
                               analysis |-> None ])
                   /\ error' = None
              /\ (c.endpoint = "analyze-dynamic" /\ data.data = None) =>
                   /\ results' = results
                   /\ IsSome(error')
              /\ c.endpoint = "analyze" =>
                   /\ results' = data.data
                   /\ error' = None ]_vars

\* A submit made with the checkbox checked has just succeeded with the
\* checkbox unchecked: results hold the mapped body (analysis as metrics).
C12_Witness ==
  /\ app = "toggle"
  /\ lastEvent = "settle"
  /\ lastOutcome = "ok"
  /\ ~useNewEndpoint
  /\ IsSome(results)
  /\ Val(results).metrics = Some({"m1", "m2"})
  /\ Val(results).analysis = None

\* C13: whenever the results panel is visible, the results it shows are those
\* of the most recent submit that has completed; results of an earlier submit
\* are never shown after a later submit has failed.
C13_ResultsAreOfLastSubmit == ResultsVisible => lastOutcome = "ok"

\* C14: immediately after any submit completes (loading back to false) the
\* user sees exactly one of the error panel and the results panel: a response
\* with success = true always leads to a visible results panel, every other
\* outcome to a visible error panel.
C14_ExactlyOnePanelAfterSubmit ==
  /\ [][ (loading /\ ~loading') => (ErrorDisplayVisible' # ResultsVisible') ]_vars
  /\ [][ \A c \in calls, data \in JsonBodies :
            jsonResolves(c, data) =>
              IF data.success
              THEN ResultsVisible' /\ ~ErrorDisplayVisible'
              ELSE ErrorDisplayVisible' /\ ~ResultsVisible' ]_vars
  /\ [][ (FetchRejects \/ TextSettles \/ JsonRejects) =>
            ErrorDisplayVisible' /\ ~ResultsVisible' ]_vars

\* C15: handleFileChange changes the file state only when the selected file
\* has MIME type exactly 'text/csv'; with no file or a file of another type
\* the state is left unchanged, so the file accepted before stays selected
\* and is what the next submit sends.
C15_FileChangesOnlyForCsv ==
  /\ [][ domFile' # domFile =>
            file' = IF IsSome(domFile') /\ Val(domFile').type = "text/csv"
                    THEN domFile' ELSE file ]_vars
  /\ [][ file' # file => (domFile' # domFile /\ file' = domFile') ]_vars
  /\ [][ lastEvent' = "submit" =>
            \A c \in Started : Val(c.request).file = file ]_vars

\* a.csv was accepted, notes.txt was selected after it, and the submit that
\* followed has sent a.csv.
C15_Witness ==
  /\ lastEvent = "submit"
  /\ domFile = Some([name |-> "notes.txt", type |-> "text/plain"])
  /\ file = Some([name |-> "a.csv", type |-> "text/csv"])
  /\ \E c \in calls : c.pc = "fetch" /\ Val(c.request).file = file

\* A question that is empty after trim.
Blank(q) == ~TruthyStr(trim(q))

\* The entries of list that are not blank, in order, by position.
RECURSIVE NonBlankEntries(_)
NonBlankEntries(list) ==
  IF list = <<>> THEN <<>>
  ELSE IF Blank(Head(list)) THEN NonBlankEntries(Tail(list))
       ELSE << Head(list) >> \o NonBlankEntries(Tail(list))

\* C16: while a QuestionsInput stays mounted, after handleQuestionChange,
\* removeQuestion and handleExampleClick the list passed to onChange is the
\* list of the non-blank entries of the component's new question list, in
\* order; the parent's list never contains a blank question.
C16_ParentHoldsNonBlankQuestions ==
  /\ [][ (QuestionChange \/ RemoveClick \/ ExampleClick) =>
            questions' = NonBlankEntries(qiQuestions') ]_vars
  /\ [](\A i \in 1..Len(questions) : ~Blank(questions[i]))

\* A whitespace-only row stands before a non-blank one and the parent holds
\* the non-blank one only.
C16_Witness ==
  /\ QuestionsInputMounted
  /\ qiQuestions = << <<" ">>, <<" ", "a", " ">> >>
  /\ questions = << <<" ", "a", " ">> >>

\* C17: the question list of QuestionsInput is never empty: it starts as one
\* blank row, holds at least one row after any sequence of addQuestion,
\* removeQuestion, handleQuestionChange and handleExampleClick, and removing
\* the only row leaves a single blank row.
C17_QuestionListNeverEmpty ==
  /\ [](Len(qiQuestions) >= 1)
  /\ [](lastEvent = "mount" => qiQuestions = << <<>> >>)
  /\ [][ (RemoveClick /\ Len(qiQuestions) = 1) => qiQuestions' = << <<>> >> ]_vars

\* The only row has just been removed: one blank row is shown and the parent
\* holds no question.
C17_Witness ==
  /\ lastEvent = "removeOnly"
  /\ qiQuestions = << <<>> >>
  /\ questions = <<>>

\* The rows a click on an example may fill: the first blank row if there is
\* one, else a new last row.
ExampleRow(list) ==
  IF \E i \in 1..Len(list) : Blank(list[i])
  THEN CHOOSE i \in 1..Len(list) :
         Blank(list[i]) /\ \A j \in 1..(i - 1) : ~Blank(list[j])
  ELSE Len(list) + 1

\* C18: handleExampleClick never overwrites or reorders a non-blank question:
\* the example replaces the first blank row and the length is unchanged, or,
\* with no blank row, is appended as the new last row; every other row keeps
\* value and position, and the example list is closed afterwards.
C18_ExampleFillsBlankOrAppends ==
  [][ ExampleClick =>
        LET k == ExampleRow(qiQuestions) IN
          /\ Len(qiQuestions') = (IF k <= Len(qiQuestions) THEN Len(qiQuestions)
                                                          ELSE Len(qiQuestions) + 1)
          /\ qiQuestions'[k] \in QUESTION_EXAMPLES
          /\ \A i \in 1..Len(qiQuestions) : i # k => qiQuestions'[i] = qiQuestions[i]
          /\ ~showExamples' ]_vars

\* An example has just been put behind a non-blank question.
C18_Witness ==
  /\ lastEvent = "example"
  /\ ~showExamples
  /\ qiQuestions = << <<" ", "a", " ">>, <<"W", "h">> >>

\* C19: the Key Metrics section of AnalysisResults is rendered iff
\* results.metrics is present and has at least one key, and then shows one
\* tile per key; with absent or empty metrics no section is rendered.
C19_KeyMetricsSection ==
  IsSome(results) =>
    LET r == Val(results) IN
      /\ KeyMetricsSection(r) <=> (r.metrics # None /\ Val(r.metrics) # {})
      /\ KeyMetricsSection(r) => MetricsTiles(r) = Val(r.metrics)
      /\ ~KeyMetricsSection(r) => MetricsTiles(r) = {}

\* The results panel shows results whose metrics object is empty, without a
\* Key Metrics section.
C19_Witness ==
  /\ ResultsVisible
  /\ Val(results).metrics = Some({})
  /\ ~KeyMetricsSection(Val(results))
  /\ MetricsTiles(Val(results)) = {}

\* C20: every answer whose confidence is a value from 0 to 1 is shown with
\* the confidence bar and the label round(confidence * 100) '% confidence',
\* as RecommendationCard shows a recommendation's confidence.
C20_AnswerConfidenceShown ==
  ResultsVisible =>
    LET cards == AnswerCards(Val(results)) IN
      \A i \in 1..Len(cards) :
        (IsSome(cards[i].confidence) /\ Val(cards[i].confidence) \in 0..1000) =>
          /\ IsSome(AnswerConfidenceLabel(cards[i]))
          /\ AnswerConfidenceLabel(cards[i]) =
               RecommendationConfidenceLabel(Val(cards[i].confidence))

\* The sections the claim expects for the fields of an object, in order.
ExpectedSections(fields) ==
  LET all == << <<"Insight:", fields.insight>>,
                <<"Key Metrics:", fields.key_metrics>>,
                <<"Relationships:", fields.relationships>>,
                <<"Statistical Evidence:", fields.statistical_evidence>> >>
      shown(p) == p[2] # None /\ (p[2][1].isArray \/ p[2][1].text # "")
      text(f) == IF ~f.isArray THEN f.text
                 ELSE IF Len(f.items) = 0 THEN ""
                 ELSE IF Len(f.items) = 1 THEN f.items[1]
                 ELSE f.items[1] \o ", " \o f.items[2]
      kept == SelectSeq(all, shown)
  IN [ i \in 1..Len(kept) |-> [title |-> kept[i][1], text |-> text(kept[i][2][1])] ]

\* C21: RecommendationCard handles both formats of supporting_data: a
\* non-empty string is one plain text block; an object is rendered as the
\* sections Insight, Key Metrics, Relationships and Statistical Evidence, each
\* shown iff its field is present and truthy, list fields joined by ', ';
\* with supporting_data absent no Supporting Data block is rendered.
C21_SupportingDataFormats ==
  IsSome(cardView) =>
    LET sd == Val(recommendation).supporting_data
        v == Val(cardView)
    IN /\ sd.type = "undefined" => ~v.block /\ v.plain = None /\ v.sections = <<>>
       /\ (sd.type = "string" /\ sd.text # "") =>
            v.block /\ v.plain = Some(sd.text) /\ v.sections = <<>>
       /\ sd.type = "object" =>
            v.block /\ v.plain = None /\ v.sections = ExpectedSections(sd.fields)

\* A card has rendered an object with an insight, two key metrics, no
\* relationships and an empty statistical_evidence.
C21_Witness ==
  /\ IsSome(cardView)
  /\ Val(recommendation).supporting_data.type = "object"
  /\ Val(recommendation).supporting_data.fields =
       [ insight |-> Some(StringField("s")),
         key_metrics |-> Some(ArrayField(<<"a", "b">>)),
         relationships |-> None,
         statistical_evidence |-> Some(StringField("")) ]
  /\ Val(cardView).sections =
       << [title |-> "Insight:", text |-> "s"],
          [title |-> "Key Metrics:", text |-> "a, b"] >>

\* C22: exporting to PDF hides the export button only for the duration of the
\* export: after every click on 'Export to PDF' the button is eventually
\* visible again, whether the save succeeds or fails.
C22_ExportButtonVisibleAgain == exportHidden ~> ~exportHidden

\* The brackets of text are balanced: read from the left with the open ones
\* on a stack, every closing one meets its own kind on top and the stack is
\* empty at the end.
RECURSIVE BalancedFrom(_, _)
BalancedFrom(text, open) ==
  IF text = <<>> THEN open = <<>>
  ELSE LET c == Head(text) IN
    IF c \in { "{", "[" } THEN BalancedFrom(Tail(text), << c >> \o open)
    ELSE IF c \in { "}", "]" }
    THEN /\ open # <<>>
         /\ Head(open) = (IF c = "}" THEN "{" ELSE "[")
         /\ BalancedFrom(Tail(text), Tail(open))
    ELSE BalancedFrom(Tail(text), open)

IsBracket(c) == c \in { "{", "}", "[", "]" }

\* The brackets of a text, in order.
Brackets(text) == SelectSeq(text, IsBracket)

\* C23: in every prompt template, once interpolation has turned each doubled
\* brace into one literal brace, the OUTPUT_STRUCTURE shown to the model is a
\* brace- and bracket-balanced JSON skeleton.
C23_OutputStructureBalanced == pc = "done" => BalancedFrom(Brackets(prompt), <<>>)

====
